---- MODULE Spec2Model ----
(***************************************************************************)
(* Model of wsi/slide.py: the training-slide conversion pipeline.          *)
(*                                                                         *)
(*   - the work partitioner and pool dispatch of                           *)
(*     multiprocess_training_slides_to_images                              *)
(*   - the per-range worker training_slide_range_to_images and the        *)
(*     per-slide conversion training_slide_to_image                        *)
(*   - the path encoder get_training_image_path /                          *)
(*     get_training_thumbnail_path and the decoder                         *)
(*     parse_dimensions_from_training_image_filename                       *)
(*   - the coordinate mapper small_to_large_mapping                        *)
(*                                                                         *)
(* Python floats are IEEE-754 binary64.  The arithmetic the program does   *)
(* on them (int / int, int * float, float + int, int(), round()) is        *)
(* modelled bit-exactly on a fixed-point representation, because the       *)
(* results of int() depend on the rounding of the last mantissa bit.       *)
(***************************************************************************)
EXTENDS Integers, Sequences, FiniteSets, TLC

(***************************************************************************)
(* Bounds of the model.                                                    *)
(***************************************************************************)
\* partition specification: number of source slides and of pool processes
MaxTotal == 100
MaxWorkers == 40
\* batch specification: slide numbers in the source directory, pool processes
MaxSlides == 6
MaxCpu == 2
\* codec specification: slide numbers and dimensions fed to the encoders
MaxCodecSlide == 1
MaxCodecDim == 2
\* mapping specification: sides of the large image
MaxLargeSide == 70
MaxThumbSide == 12
MaxThumbSize == 4
MaxRepeatSlides == 3
MaxCalls == 2

(***************************************************************************)
(* IEEE-754 binary64 arithmetic.                                           *)
(*                                                                         *)
(* A non-negative double x is the record [int |-> I, frac |-> f] with      *)
(* x = I + SUM_k f[k] / LimbBase^k, f a sequence of NumLimbs limbs of      *)
(* LimbBits bits each.  Every double in [2^-25, 2^18) is represented       *)
(* exactly.  An exact intermediate result carries a sticky flag for the    *)
(* bits beyond the last limb and is rounded to 53 significant bits,        *)
(* ties to even.                                                           *)
(***************************************************************************)
LimbBits == 13
LimbBase == 2 ^ LimbBits
NumLimbs == 6
MantissaBits == 53

RECURSIVE BitLen(_)
BitLen(n) == IF n = 0 THEN 0 ELSE 1 + BitLen(n \div 2)

\* number of leading zero bits of the fraction f
RECURSIVE LeadingZeros(_)
LeadingZeros(f) ==
  IF f = <<>> THEN 0
  ELSE IF f[1] = 0 THEN LimbBits + LeadingZeros(Tail(f))
  ELSE LimbBits - BitLen(f[1])

\* adds carry c to the least significant limb of f: <<carry out, limbs>>
RECURSIVE Carry(_, _)
Carry(f, c) ==
  IF f = <<>> THEN <<c, <<>>>>
  ELSE LET n == Len(f)
           v == f[n] + c
           r == Carry(SubSeq(f, 1, n - 1), v \div LimbBase)
       IN  <<r[1], Append(r[2], v % LimbBase)>>

\* the double nearest to the exact value I + f (+ a non-zero tail iff sticky)
RoundBinary64(I, f, sticky) ==
  LET p    == IF I > 0 THEN MantissaBits - BitLen(I)
              ELSE MantissaBits + LeadingZeros(f)
      j    == (p \div LimbBits) + 1
      kb   == p % LimbBits
      unit == 2 ^ (LimbBits - kb)
      half == unit \div 2
  IN  IF j > Len(f) THEN [int |-> I, frac |-> f]
      ELSE
        LET rem    == f[j] % unit
            tail   == sticky \/ \E k \in (j + 1)..Len(f) : f[k] # 0
            lsbOdd == IF kb > 0 THEN (f[j] \div unit) % 2 = 1
                      ELSE IF j > 1 THEN f[j - 1] % 2 = 1
                      ELSE I % 2 = 1
            up     == \/ rem > half
                      \/ rem = half /\ (tail \/ lsbOdd)
            kept   == [k \in 1..j |->
                         IF k < j THEN f[k]
                         ELSE f[j] - rem + (IF up THEN unit ELSE 0)]
            c      == Carry(kept, 0)
        IN  [int  |-> I + c[1],
             frac |-> [k \in 1..Len(f) |-> IF k <= j THEN c[2][k] ELSE 0]]

\* the limbs of r / b for 0 <= r < b: <<limbs, remainder>>
RECURSIVE DivLimbs(_, _, _)
DivLimbs(r, b, n) ==
  IF n = 0 THEN <<<<>>, r>>
  ELSE LET d    == (r * LimbBase) \div b
           rest == DivLimbs((r * LimbBase) % b, b, n - 1)
       IN  <<<<d>> \o rest[1], rest[2]>>

\* a / b for ints a >= 0, b > 0 (Python true division, correctly rounded)
FDiv(a, b) ==
  LET q == DivLimbs(a % b, b, NumLimbs)
  IN  RoundBinary64(a \div b, q[1], q[2] # 0)

\* x / b for a float x >= 0 and an int b > 0
RECURSIVE DivFracBy(_, _, _)
DivFracBy(f, r, b) ==
  IF f = <<>> THEN <<<<>>, r>>
  ELSE LET n    == r * LimbBase + f[1]
           rest == DivFracBy(Tail(f), n % b, b)
       IN  <<<<n \div b>> \o rest[1], rest[2]>>

FDivF(x, b) ==
  LET q == DivFracBy(x.frac, x.int % b, b)
  IN  RoundBinary64(x.int \div b, q[1], q[2] # 0)

\* i * x for an int i >= 0 and a float x
FMul(i, x) ==
  LET c == Carry([k \in 1..Len(x.frac) |-> i * x.frac[k]], 0)
  IN  RoundBinary64(i * x.int + c[1], c[2], FALSE)

\* x + i for a float x and an int i >= 0
FAdd(x, i) == RoundBinary64(x.int + i, x.frac, FALSE)

\* int(x) for a float x >= 0: truncation
PyInt(x) == x.int

\* round(x) for a float x >= 0: nearest int, ties to even
PyRound(x) ==
  LET halfLimb == LimbBase \div 2
      tail     == \E k \in 2..Len(x.frac) : x.frac[k] # 0
      up       == \/ x.frac[1] > halfLimb
                  \/ x.frac[1] = halfLimb /\ (tail \/ x.int % 2 = 1)
  IN  x.int + (IF up THEN 1 ELSE 0)

(***************************************************************************)
(* Work partitioner (multiprocess_training_slides_to_images).              *)
(***************************************************************************)
\* num_processes after the cap at the number of training images
EffectiveProcesses(cpu, total) == IF cpu > total THEN total ELSE cpu

\* variant: integer (floor) division, as "/" on ints in Python 2
ImagesPerProcessFloorDiv(total, n) ==
  IF n = 0 THEN [raised |-> "ZeroDivisionError", value |-> FDiv(0, 1)]
  ELSE [raised |-> "none", value |-> FDiv(total \div n, 1)]

\* variant: a division that yields 0 instead of raising for no processes
ImagesPerProcessNoRaise(total, n) ==
  IF n = 0 THEN [raised |-> "none", value |-> FDiv(0, 1)]
  ELSE [raised |-> "none", value |-> FDiv(total, n)]

\* images_per_process = num_train_images / num_processes (line 534)
ImagesPerProcess(total, n) ==
  IF n = 0 THEN [raised |-> "ZeroDivisionError", value |-> FDiv(0, 1)]
  ELSE [raised |-> "none", value |-> FDiv(total, n)]

\* variant: the end index is one past the last slide of the range
TaskRangeOverlap(num_process, images_per_process) ==
  <<PyInt(FAdd(FMul(num_process - 1, images_per_process), 1)),
    PyInt(FMul(num_process, images_per_process)) + 1>>

\* the (start_index, end_index) of task num_process (lines 542-545)
TaskRange(num_process, images_per_process) ==
  <<PyInt(FAdd(FMul(num_process - 1, images_per_process), 1)),
    PyInt(FMul(num_process, images_per_process))>>

\* variant: integer chunks, the last task takes the remainder
BuildTasksRemainderLast(total, n) ==
  [num_process \in 1..n |->
     <<(num_process - 1) * (total \div n) + 1,
       IF num_process = n THEN total ELSE num_process * (total \div n)>>]

\* the task list (lines 540-546)
BuildTasks(total, n) ==
  [num_process \in 1..n |->
     TaskRange(num_process, ImagesPerProcess(total, n).value)]

(***************************************************************************)
(* Strings are sequences of one-character strings.                         *)
(***************************************************************************)
Digits == <<"0", "1", "2", "3", "4", "5", "6", "7", "8", "9">>

\* str(n) for an int n >= 0
RECURSIVE Str(_)
Str(n) == IF n < 10 THEN <<Digits[n + 1]>>
          ELSE Str(n \div 10) \o <<Digits[(n % 10) + 1]>>

\* s.zfill(width): pads on the left with "0", never truncates
RECURSIVE zfill(_, _)
zfill(s, width) == IF Len(s) >= width THEN s ELSE zfill(<<"0">> \o s, width)

\* module constants (lines 36-48); os.sep is "/"
SCALE_FACTOR == 32
THUMBNAIL_SIZE == 300
BASE_DIR == <<".", ".", "/", "d", "a", "t", "a">>
TRAIN_PREFIX == <<"T", "U", "P", "A", "C", "-", "T", "R", "-">>
DEST_TRAIN_SUFFIX == <<>>
DEST_TRAIN_EXT == <<"p", "n", "g">>
THUMBNAIL_EXT == <<"j", "p", "g">>
DEST_TRAIN_DIR ==
  BASE_DIR \o <<"/">> \o <<"t", "r", "a", "i", "n", "i", "n", "g", "_">>
           \o DEST_TRAIN_EXT
DEST_TRAIN_THUMBNAIL_DIR ==
  BASE_DIR \o <<"/">>
           \o <<"t", "r", "a", "i", "n", "i", "n", "g", "_",
                "t", "h", "u", "m", "b", "n", "a", "i", "l", "_">>
           \o THUMBNAIL_EXT

\* the file name shared by both encoders, dimensions supplied (lines 144-146)
EncodedName(slide_number, large_w, large_h, small_w, small_h) ==
  TRAIN_PREFIX \o zfill(Str(slide_number), 3) \o <<"-">> \o Str(SCALE_FACTOR)
    \o <<"x", "-">> \o DEST_TRAIN_SUFFIX \o Str(large_w) \o <<"x">>
    \o Str(large_h) \o <<"-">> \o Str(small_w) \o <<"x">> \o Str(small_h)

\* variant: the small dimensions are written before the large ones
get_training_image_path_swapped(slide_number, large_w, large_h, small_w, small_h) ==
  DEST_TRAIN_DIR \o <<"/">>
    \o EncodedName(slide_number, small_w, small_h, large_w, large_h)
    \o <<".">> \o DEST_TRAIN_EXT

get_training_image_path(slide_number, large_w, large_h, small_w, small_h) ==
  DEST_TRAIN_DIR \o <<"/">>
    \o EncodedName(slide_number, large_w, large_h, small_w, small_h)
    \o <<".">> \o DEST_TRAIN_EXT

get_training_thumbnail_path(slide_number, large_w, large_h, small_w, small_h) ==
  DEST_TRAIN_THUMBNAIL_DIR \o <<"/">>
    \o EncodedName(slide_number, large_w, large_h, small_w, small_h)
    \o <<".">> \o THUMBNAIL_EXT

(***************************************************************************)
(* re.match of parse_dimensions_from_training_image_filename.  The         *)
(* pattern is: any-run, dash, group 1, x, group 2, dash, group 3, x,       *)
(* group 4, dot, any-run; i.e. the literals below, each preceded by a      *)
(* greedy any-run, and a trailing any-run.  The backtracking matcher       *)
(* tries the longest run first, so every literal is matched at the         *)
(* rightmost position that lets the rest of the pattern match.  No string  *)
(* of the model contains a newline.                                        *)
(***************************************************************************)
RegexLiterals == <<"-", "x", "-", "x", ".">>

SetMax(S) == CHOOSE m \in S : \A n \in S : n <= m

\* the pattern from literal k on matches s from position pos on
RECURSIVE CanMatch(_, _, _)
CanMatch(s, pos, k) ==
  \/ k > Len(RegexLiterals)
  \/ \E q \in pos..Len(s) : s[q] = RegexLiterals[k] /\ CanMatch(s, q + 1, k + 1)

\* the positions at which literals k.. are matched
RECURSIVE GreedyMatch(_, _, _)
GreedyMatch(s, pos, k) ==
  IF k > Len(RegexLiterals) THEN <<>>
  ELSE LET q == SetMax({r \in pos..Len(s) :
                          s[r] = RegexLiterals[k] /\ CanMatch(s, r + 1, k + 1)})
       IN  <<q>> \o GreedyMatch(s, q + 1, k + 1)

\* m.group(1..4), or the AttributeError of m.group when m is None
parse_dimensions_from_training_image_filename(filename) ==
  IF ~CanMatch(filename, 1, 1)
  THEN [status |-> "AttributeError", value |-> <<>>]
  ELSE LET m == GreedyMatch(filename, 1, 1)
       IN  [status |-> "ok",
            value  |-> <<SubSeq(filename, m[1] + 1, m[2] - 1),
                         SubSeq(filename, m[2] + 1, m[3] - 1),
                         SubSeq(filename, m[3] + 1, m[4] - 1),
                         SubSeq(filename, m[4] + 1, m[5] - 1)>>]

(***************************************************************************)
(* Coordinate mapper.                                                      *)
(***************************************************************************)
\* variant: no correction for the flooring of the small dimensions
MapAxisUncorrected(small, large) == SCALE_FACTOR * small

\* one axis of small_to_large_mapping (lines 431-432):
\*   round((large / SCALE_FACTOR) / math.floor(large / SCALE_FACTOR)
\*         * (SCALE_FACTOR * small))
\* a float division by zero raises ZeroDivisionError
MapAxis(small, large) ==
  LET scaled  == FDiv(large, SCALE_FACTOR)
      floored == PyInt(scaled)
  IN  PyRound(FMul(SCALE_FACTOR * small, FDivF(scaled, floored)))

\* math.floor(large / SCALE_FACTOR) (lines 431-432, 452-453)
ScaledDown(large) == PyInt(FDiv(large, SCALE_FACTOR))

small_to_large_mapping(small_pixel, large_dimensions) ==
  IF ScaledDown(large_dimensions[1]) = 0 \/ ScaledDown(large_dimensions[2]) = 0
  THEN [status |-> "ZeroDivisionError", value |-> <<>>]
  ELSE [status |-> "ok",
        value  |-> <<MapAxis(small_pixel[1], large_dimensions[1]),
                     MapAxis(small_pixel[2], large_dimensions[2])>>]

(***************************************************************************)
(* Slide access.                                                           *)
(***************************************************************************)
None == [kind |-> "None", handle |-> 0]
NoSlide == [kind |-> "unset", handle |-> 0]
NoException == [type |-> "none", slide_number |-> 0]

\* variant: the handler for FileNotFoundError is missing
open_slide_uncaught(outcome, handle) ==
  CASE outcome = "OpenSlideError" -> [raised |-> "none", value |-> None]
    [] outcome = "ok" -> [raised |-> "none",
                          value  |-> [kind |-> "slide", handle |-> handle]]
    [] OTHER -> [raised |-> outcome, value |-> None]

\* open_slide (lines 80-86).  outcome is what openslide.open_slide does
\* for the file: it returns a slide ("ok") or raises the named exception.
open_slide(outcome, handle) ==
  CASE outcome = "OpenSlideError"    -> [raised |-> "none", value |-> None]
    [] outcome = "FileNotFoundError" -> [raised |-> "none", value |-> None]
    [] OTHER -> IF outcome = "ok"
                THEN [raised |-> "none",
                      value  |-> [kind |-> "slide", handle |-> handle]]
                ELSE [raised |-> outcome, value |-> None]

\* slide.dimensions of the source slide (line 451): the data of the model
SlideDimensions(slide_number) ==
  IF slide_number % 2 = 1 THEN <<49920, 108288>> ELSE <<2050, 1000>>

\* save_thumbnail, line 472: max_size, the dimensions of the thumbnail of
\* an image of dimensions pil_size (size * d is an int product, "/" the
\* true division of two ints, round() rounds half to even)
ThumbnailMaxSize(size, pil_size) ==
  LET m == IF pil_size[1] > pil_size[2] THEN pil_size[1] ELSE pil_size[2]
  IN  <<PyRound(FDiv(size * pil_size[1], m)),
        PyRound(FDiv(size * pil_size[2], m))>>

VARIABLES
  srcFiles,          \* slide numbers whose file TUPAC-TR-<nnn>.svs exists
  corrupt,           \* existing files that the slide library rejects
  cpu_count,         \* multiprocessing.cpu_count(), the size of the pool
  pc,                \* position of the dispatcher
  num_processes,     \* local of the dispatcher
  tasks,             \* local of the dispatcher
  results,           \* one entry per apply_async: the state of that task
  collected,         \* the values result.get() has returned, in order
  error,             \* the exception that ended the dispatcher, or "none"
  openHandles,       \* slide handles opened and not closed
  files,             \* writes to output files: [path, task]
  disk,              \* the output files: [path, content]
  codec_args,        \* arguments of the path encoders
  filename,          \* the encoded path
  parsed,            \* result of the decoder
  large_dimensions,  \* arguments and result of small_to_large_mapping
  small_pixel,
  large_pixel,
  thumb_args,        \* arguments of save_thumbnail: size, pil_img.size
  max_size           \* the target dimensions save_thumbnail computes

batchVars == <<srcFiles, corrupt, cpu_count, pc, num_processes, tasks,
               results, collected, error, openHandles, files, disk>>
codecVars == <<codec_args, filename, parsed>>
mapVars   == <<large_dimensions, small_pixel, large_pixel>>
thumbVars == <<thumb_args, max_size>>
vars      == <<batchVars, codecVars, mapVars, thumbVars>>

NotParsed == [status |-> "unset", value |-> <<>>]
NotMapped == [status |-> "unset", value |-> <<>>]
NotSized  == [status |-> "unset", value |-> <<>>]

\* get_num_training_slides(): the number of files *.svs in SRC_TRAIN_DIR
get_num_training_slides == Cardinality(srcFiles)

\* what openslide.open_slide does for get_training_slide_path(slide_number)
LibraryOutcome(slide_number) ==
  IF slide_number \notin srcFiles THEN "FileNotFoundError"
  ELSE IF slide_number \in corrupt THEN "OpenSlideError"
  ELSE "ok"

(***************************************************************************)
(* The dispatcher: multiprocess_training_slides_to_images.                 *)
(***************************************************************************)
\* lines 528-546: create the pool, cap the process count, divide, build
\* the task list; the division raises ZeroDivisionError for no processes
PlanTasks ==
  /\ pc = "start"
  /\ LET total == get_num_training_slides
         n     == EffectiveProcesses(cpu_count, total)
         ipp   == ImagesPerProcess(total, n)
     IN  /\ num_processes' = n
         /\ IF ipp.raised # "none"
            THEN /\ pc' = "raised"
                 /\ error' = [type |-> "ZeroDivisionError", slide_number |-> 0]
                 /\ tasks' = <<>>
            ELSE /\ pc' = "dispatch"
                 /\ error' = error
                 /\ tasks' = BuildTasks(total, n)
  /\ UNCHANGED <<srcFiles, corrupt, cpu_count, results, collected,
                 openHandles, files, disk, codecVars, mapVars, thumbVars>>

NewTask(t) ==
  [range |-> t, state |-> "queued", slide_num |-> 0, step |-> "idle",
   slide |-> NoSlide, exc |-> NoException, log |-> <<>>]

\* lines 554-555: one iteration of the apply_async loop
ApplyAsync ==
  /\ pc = "dispatch"
  /\ Len(results) < Len(tasks)
  /\ LET k == Len(results) + 1
     IN  /\ results' = Append(results, NewTask(tasks[k]))
         /\ pc' = IF k = Len(tasks) THEN "collect" ELSE "dispatch"
  /\ UNCHANGED <<srcFiles, corrupt, cpu_count, num_processes, tasks,
                 collected, error, openHandles, files, disk, codecVars, mapVars, thumbVars>>

\* a result.get() that returns without waiting for the task to end
AsyncResultReadyNoWait(k) == TRUE

\* line 558: result.get() blocks until the task of the result has ended
AsyncResultReady(k) == results[k].state \in {"returned", "raised"}

\* lines 557-562: one iteration of the result.get() loop; get() blocks
\* until the task has ended and re-raises the exception of a failed task
GetResult ==
  /\ pc = "collect"
  /\ LET k == Len(collected) + 1
     IN  /\ AsyncResultReady(k)
         /\ \/ /\ results[k].state # "raised"
               /\ collected' = Append(collected, results[k].range)
               /\ pc' = IF k = Len(results) THEN "report" ELSE "collect"
               /\ error' = error
            \/ /\ results[k].state = "raised"
               /\ collected' = collected
               /\ pc' = "raised"
               /\ error' = results[k].exc
  /\ UNCHANGED <<srcFiles, corrupt, cpu_count, num_processes, tasks,
                 results, openHandles, files, disk, codecVars, mapVars, thumbVars>>

\* line 564: timer.elapsed_display()
ElapsedDisplay ==
  /\ pc = "report"
  /\ pc' = "done"
  /\ UNCHANGED <<srcFiles, corrupt, cpu_count, num_processes, tasks,
                 results, collected, error, openHandles, files, disk,
                 codecVars, mapVars, thumbVars>>

(***************************************************************************)
(* A pool process running training_slide_range_to_images for task k.       *)
(***************************************************************************)
Running == {k \in 1..Len(results) : results[k].state = "running"}

WorkerUnchanged ==
  UNCHANGED <<srcFiles, corrupt, cpu_count, pc, num_processes, tasks,
              collected, error, codecVars, mapVars, thumbVars>>

\* a loop over range(start_ind, end_ind): the last slide is left out
SlideRangeExclusive(start_ind, end_ind) ==
  [i \in 1..(end_ind - start_ind) |-> start_ind + i - 1]

\* line 503: range(start_ind, end_ind + 1) in the order of iteration
SlideRange(start_ind, end_ind) ==
  [i \in 1..(end_ind + 1 - start_ind) |-> start_ind + i - 1]

\* a free pool process takes the task; line 503 enters the loop, or line
\* 505 returns at once for an empty range
StartTask(k) ==
  /\ results[k].state = "queued"
  /\ Cardinality(Running) < cpu_count
  /\ LET t == results[k]
         r == SlideRange(t.range[1], t.range[2])
     IN  results' = [results EXCEPT ![k] =
           IF Len(r) = 0
           THEN [t EXCEPT !.state = "returned"]
           ELSE [t EXCEPT !.state = "running", !.slide_num = r[1],
                          !.step = "open"]]
  /\ UNCHANGED <<openHandles, files, disk>>
  /\ WorkerUnchanged

\* lines 443-445: slide = open_slide(slide_filepath)
OpenSlide(k) ==
  /\ results[k].state = "running"
  /\ results[k].step = "open"
  /\ LET t == results[k]
         r == open_slide(LibraryOutcome(t.slide_num), t.slide_num)
     IN  IF r.raised # "none"
         THEN /\ results' = [results EXCEPT ![k] =
                   [t EXCEPT !.state = "raised", !.step = "idle",
                             !.log = Append(t.log, t.slide_num),
                             !.exc = [type |-> r.raised,
                                      slide_number |-> t.slide_num]]]
              /\ openHandles' = openHandles
         ELSE /\ results' = [results EXCEPT ![k] =
                   [t EXCEPT !.slide = r.value, !.step = "read",
                             !.log = Append(t.log, t.slide_num)]]
              /\ openHandles' = IF r.value.kind = "slide"
                                THEN openHandles \cup {r.value.handle}
                                ELSE openHandles
  /\ UNCHANGED <<files, disk>>
  /\ WorkerUnchanged

\* lines 451-461: slide.dimensions raises AttributeError when slide is
\* None; otherwise the region is read and resized in memory
ReadAndResize(k) ==
  /\ results[k].state = "running"
  /\ results[k].step = "read"
  /\ LET t == results[k]
     IN  results' = [results EXCEPT ![k] =
           IF t.slide.kind = "None"
           THEN [t EXCEPT !.state = "raised", !.step = "idle",
                          !.exc = [type |-> "AttributeError",
                                   slide_number |-> t.slide_num]]
           ELSE [t EXCEPT !.step = "save_image"]]
  /\ UNCHANGED <<openHandles, files, disk>>
  /\ WorkerUnchanged

\* the dimensions that go into both output paths (lines 451-453)
PathArgs(slide_number) ==
  LET large == SlideDimensions(slide_number)
  IN  <<slide_number, large[1], large[2],
        ScaledDown(large[1]), ScaledDown(large[2])>>

\* lines 454-457: the image that is saved, the whole slide at the best
\* level for SCALE_FACTOR resized to (new_w, new_h); the pixels are a
\* function of the source file, which is named here by its slide number
ImageContent(slide_number) ==
  LET a == PathArgs(slide_number)
  IN  [slide |-> slide_number, size |-> <<a[4], a[5]>>]

\* lines 472-473: the thumbnail, the saved image resized to max_size
ThumbnailContent(slide_number) ==
  LET a == PathArgs(slide_number)
  IN  [slide |-> slide_number,
       size |-> ThumbnailMaxSize(THUMBNAIL_SIZE, <<a[4], a[5]>>)]

\* a save that opens the file for appending
SaveFileAppend(d, path, content) ==
  LET old == {f \in d : f.path = path}
      before == IF old = {} THEN <<>> ELSE (CHOOSE f \in old : TRUE).content
  IN  (d \ old) \cup {[path |-> path, content |-> Append(before, content)]}

\* lines 465 and 478: img.save(path) creates the file or truncates it and
\* writes the encoded image; a file's content is the sequence of images
\* in it
SaveFile(d, path, content) ==
  {f \in d : f.path # path} \cup {[path |-> path, content |-> <<content>>]}

\* lines 461-465: img.save(img_path); the destination directories exist
SaveImage(k) ==
  /\ results[k].state = "running"
  /\ results[k].step = "save_image"
  /\ LET t == results[k]
         a == PathArgs(t.slide_num)
     IN  /\ files' = files \cup
               {[path |-> get_training_image_path(a[1], a[2], a[3], a[4], a[5]),
                 task |-> k]}
         /\ disk' = SaveFile(disk,
                      get_training_image_path(a[1], a[2], a[3], a[4], a[5]),
                      ImageContent(t.slide_num))
         /\ results' = [results EXCEPT ![k] = [t EXCEPT !.step = "save_thumbnail"]]
  /\ UNCHANGED openHandles
  /\ WorkerUnchanged

\* lines 467-468 and save_thumbnail: the thumbnail is written and
\* training_slide_to_image returns; lines 503-505: next slide, or return
\* (log holds the slides the loop has reached, the last one being current)
SaveThumbnail(k) ==
  /\ results[k].state = "running"
  /\ results[k].step = "save_thumbnail"
  /\ LET t == results[k]
         a == PathArgs(t.slide_num)
         r == SlideRange(t.range[1], t.range[2])
     IN  /\ files' = files \cup
               {[path |-> get_training_thumbnail_path(a[1], a[2], a[3], a[4], a[5]),
                 task |-> k]}
         /\ disk' = SaveFile(disk,
                      get_training_thumbnail_path(a[1], a[2], a[3], a[4], a[5]),
                      ThumbnailContent(t.slide_num))
         /\ results' = [results EXCEPT ![k] =
               IF Len(t.log) >= Len(r)
               THEN [t EXCEPT !.state = "returned", !.step = "idle",
                              !.slide = NoSlide]
               ELSE [t EXCEPT !.slide_num = r[Len(t.log) + 1], !.step = "open",
                              !.slide = NoSlide]]
  /\ UNCHANGED openHandles
  /\ WorkerUnchanged

\* The program never calls slide.close() and opens the slide outside any
\* with-block: a handle is reclaimed only when the interpreter finalizes
\* the OpenSlide object, at some time after the last reference (the local
\* variable slide of a conversion in progress) is gone.
Referenced(h) ==
  \E k \in 1..Len(results) :
    /\ results[k].state = "running"
    /\ results[k].slide.kind = "slide"
    /\ results[k].slide.handle = h

Finalize(h) ==
  /\ h \in openHandles
  /\ ~Referenced(h)
  /\ openHandles' = openHandles \ {h}
  /\ UNCHANGED <<results, files, disk>>
  /\ WorkerUnchanged

IdleCodec ==
  /\ codec_args = [slide_number |-> 0, large_w |-> 0, large_h |-> 0,
                   small_w |-> 0, small_h |-> 0]
  /\ filename = <<>>
  /\ parsed = NotParsed

IdleMapping ==
  /\ large_dimensions = <<0, 0>>
  /\ small_pixel = <<0, 0>>
  /\ large_pixel = NotMapped

IdleThumbnail ==
  /\ thumb_args = [size |-> 0, pil_size |-> <<0, 0>>]
  /\ max_size = NotSized

IdleDispatcher ==
  /\ pc = "start"
  /\ num_processes = 0
  /\ tasks = <<>>
  /\ results = <<>>
  /\ collected = <<>>
  /\ error = NoException
  /\ openHandles = {}
  /\ files = {}
  /\ disk = {}

\* the source directory holds the slides 1..k, at most one of them missing
\* and at most one of them rejected by the slide library
Init ==
  /\ \E k \in 0..MaxSlides : \E m \in 0..k : \E c \in 0..k :
       /\ srcFiles = (1..k) \ {m}
       /\ corrupt = {c} \cap srcFiles
  /\ cpu_count \in 1..MaxCpu
  /\ IdleDispatcher
  /\ IdleCodec
  /\ IdleMapping
  /\ IdleThumbnail

Next ==
  \/ PlanTasks
  \/ ApplyAsync
  \/ GetResult
  \/ ElapsedDisplay
  \/ \E k \in 1..Len(results) : StartTask(k)
  \/ \E k \in 1..Len(results) : OpenSlide(k)
  \/ \E k \in 1..Len(results) : ReadAndResize(k)
  \/ \E k \in 1..Len(results) : SaveImage(k)
  \/ \E k \in 1..Len(results) : SaveThumbnail(k)
  \/ \E h \in openHandles : Finalize(h)

Spec == Init /\ [][Next]_vars

(***************************************************************************)
(* Repeated conversion in one process: training_slide_range_to_images is   *)
(* called again after an earlier call has returned, with the source        *)
(* directory and the configuration unchanged.                              *)
(***************************************************************************)
InitRepeat ==
  /\ \E k \in 1..MaxRepeatSlides : srcFiles = 1..k
  /\ corrupt = {}
  /\ cpu_count = 1
  /\ IdleDispatcher
  /\ IdleCodec
  /\ IdleMapping
  /\ IdleThumbnail

\* lines 492-505, called as at line 515 or with any range of slides
CallTrainingSlideRangeToImages(start_ind, end_ind) ==
  /\ Len(results) < MaxCalls
  /\ \A k \in 1..Len(results) : results[k].state = "returned"
  /\ results' = Append(results, NewTask(<<start_ind, end_ind>>))
  /\ UNCHANGED <<openHandles, files, disk>>
  /\ WorkerUnchanged

NextRepeat ==
  \/ \E s \in srcFiles : \E e \in srcFiles :
       s <= e /\ CallTrainingSlideRangeToImages(s, e)
  \/ \E k \in 1..Len(results) : StartTask(k)
  \/ \E k \in 1..Len(results) : OpenSlide(k)
  \/ \E k \in 1..Len(results) : ReadAndResize(k)
  \/ \E k \in 1..Len(results) : SaveImage(k)
  \/ \E k \in 1..Len(results) : SaveThumbnail(k)
  \/ \E h \in openHandles : Finalize(h)

SpecRepeat == InitRepeat /\ [][NextRepeat]_vars

(***************************************************************************)
(* The partitioner alone, on larger inputs.                                *)
(***************************************************************************)
InitPartition ==
  /\ \E total \in 1..MaxTotal : srcFiles = 1..total
  /\ corrupt = {}
  /\ cpu_count \in 1..MaxWorkers
  /\ IdleDispatcher
  /\ IdleCodec
  /\ IdleMapping
  /\ IdleThumbnail

NextPartition == PlanTasks

SpecPartition == InitPartition /\ [][NextPartition]_vars

(***************************************************************************)
(* The path encoders and the decoder.                                      *)
(***************************************************************************)
CodecSlides == (1..MaxCodecSlide) \cup {12, 345, 1000}
CodecDims == (1..MaxCodecDim) \cup {10, 1560, 108288}

InitCodec ==
  /\ codec_args \in [slide_number : CodecSlides, large_w : CodecDims,
                     large_h : CodecDims, small_w : CodecDims,
                     small_h : CodecDims]
  /\ filename = <<>>
  /\ parsed = NotParsed
  /\ srcFiles = {}
  /\ corrupt = {}
  /\ cpu_count = 1
  /\ IdleDispatcher
  /\ IdleMapping
  /\ IdleThumbnail

CallGetTrainingImagePath ==
  /\ filename = <<>>
  /\ filename' = get_training_image_path(codec_args.slide_number,
                   codec_args.large_w, codec_args.large_h,
                   codec_args.small_w, codec_args.small_h)
  /\ UNCHANGED <<codec_args, parsed, batchVars, mapVars, thumbVars>>

CallGetTrainingThumbnailPath ==
  /\ filename = <<>>
  /\ filename' = get_training_thumbnail_path(codec_args.slide_number,
                   codec_args.large_w, codec_args.large_h,
                   codec_args.small_w, codec_args.small_h)
  /\ UNCHANGED <<codec_args, parsed, batchVars, mapVars, thumbVars>>

CallParseDimensions ==
  /\ filename # <<>>
  /\ parsed.status = "unset"
  /\ parsed' = parse_dimensions_from_training_image_filename(filename)
  /\ UNCHANGED <<codec_args, filename, batchVars, mapVars, thumbVars>>

NextCodec ==
  \/ CallGetTrainingImagePath
  \/ CallGetTrainingThumbnailPath
  \/ CallParseDimensions

SpecCodec == InitCodec /\ [][NextCodec]_vars

(***************************************************************************)
(* The coordinate mapper.                                                  *)
(***************************************************************************)
LargeSides == (1..MaxLargeSide) \cup {49920, 108288}

\* the maximal corner of the small image
SmallCorner(large) == <<ScaledDown(large[1]), ScaledDown(large[2])>>

InitMapping ==
  /\ large_dimensions \in LargeSides \X LargeSides
  /\ small_pixel = <<0, 0>>
  /\ large_pixel = NotMapped
  /\ srcFiles = {}
  /\ corrupt = {}
  /\ cpu_count = 1
  /\ IdleDispatcher
  /\ IdleCodec
  /\ IdleThumbnail

CallSmallToLargeMapping ==
  /\ large_pixel.status = "unset"
  /\ small_pixel' \in {SmallCorner(large_dimensions), <<1, 1>>, <<0, 0>>}
  /\ large_pixel' = small_to_large_mapping(small_pixel', large_dimensions)
  /\ UNCHANGED <<large_dimensions, batchVars, codecVars, thumbVars>>

NextMapping == CallSmallToLargeMapping

SpecMapping == InitMapping /\ [][NextMapping]_vars

(***************************************************************************)
(* The thumbnail dimensions of save_thumbnail.                             *)
(***************************************************************************)
ThumbSides == (1..MaxThumbSide) \cup {600, 1560, 3384}
ThumbSizes == (1..MaxThumbSize) \cup {THUMBNAIL_SIZE}

InitThumbnail ==
  /\ thumb_args \in [size : ThumbSizes, pil_size : ThumbSides \X ThumbSides]
  /\ max_size = NotSized
  /\ srcFiles = {}
  /\ corrupt = {}
  /\ cpu_count = 1
  /\ IdleDispatcher
  /\ IdleCodec
  /\ IdleMapping

\* line 472 of save_thumbnail(pil_img, size, path)
CallSaveThumbnail ==
  /\ max_size.status = "unset"
  /\ max_size' = [status |-> "ok",
                  value |-> ThumbnailMaxSize(thumb_args.size,
                                             thumb_args.pil_size)]
  /\ UNCHANGED <<thumb_args, batchVars, codecVars, mapVars>>

NextThumbnail == CallSaveThumbnail

SpecThumbnail == InitThumbnail /\ [][NextThumbnail]_vars

(***************************************************************************)
(* Properties.                                                             *)
(***************************************************************************)
Planned == pc = "dispatch"
Total == get_num_training_slides
RangeLen(t) == t[2] - t[1] + 1

\* C1: the task list has min(workers, total) ranges, sorted and pairwise
\* disjoint, each next start is the previous end + 1, the first start is 1
\* and the last end is total, so that the ranges cover exactly 1..total.
C1_PartitionCoversAll ==
  Planned =>
    /\ Len(tasks) = (IF cpu_count < Total THEN cpu_count ELSE Total)
    /\ tasks[1][1] = 1
    /\ tasks[Len(tasks)][2] = Total
    /\ \A i \in 1..Len(tasks) : tasks[i][1] <= tasks[i][2]
    /\ \A i \in 1..(Len(tasks) - 1) : tasks[i + 1][1] = tasks[i][2] + 1

FiveSlidesTwoWorkers == Planned /\ Total = 5 /\ cpu_count = 2

\* C4 as stated: for 5 slides and 2 workers the plan is [(1,3),(4,5)].
C4_PlanFiveTwoAsStated ==
  FiveSlidesTwoWorkers => tasks = << <<1, 3>>, <<4, 5>> >>

\* C4 amended: for 5 slides and 2 workers the plan is [(1,2),(3,5)].
C4_PlanFiveTwo ==
  FiveSlidesTwoWorkers => tasks = << <<1, 2>>, <<3, 5>> >>

C4_Witness == FiveSlidesTwoWorkers /\ Len(tasks) = 2

\* C5: no two ranges of the plan differ in length by more than 1.
C5_Balanced ==
  Planned =>
    \A i, j \in 1..Len(tasks) :
      RangeLen(tasks[i]) - RangeLen(tasks[j]) <= 1

C5_Witness ==
  /\ Planned
  /\ Len(tasks) >= 3
  /\ \E i, j \in 1..Len(tasks) : RangeLen(tasks[i]) = RangeLen(tasks[j]) + 1

\* the int a string of decimal digits denotes
DigitValue(c) == CHOOSE d \in 0..9 : Digits[d + 1] = c

RECURSIVE DecimalValue(_)
DecimalValue(str) ==
  IF str = <<>> THEN 0
  ELSE 10 * DecimalValue(SubSeq(str, 1, Len(str) - 1)) + DigitValue(str[Len(str)])

IsDecimal(str) ==
  /\ str # <<>>
  /\ \A i \in 1..Len(str) : \E d \in 1..10 : Digits[d] = str[i]

ArgsInOrder ==
  <<codec_args.large_w, codec_args.large_h,
    codec_args.small_w, codec_args.small_h>>

\* C3: the decoder applied to a path produced by either encoder returns
\* exactly the decimal strings of (large_w, large_h, small_w, small_h),
\* in that order.
C3_RoundTrip ==
  parsed.status # "unset" =>
    /\ parsed.status = "ok"
    /\ \A i \in 1..4 :
         /\ IsDecimal(parsed.value[i])
         /\ parsed.value[i][1] # "0"
         /\ DecimalValue(parsed.value[i]) = ArgsInOrder[i]

C3_Witness ==
  /\ parsed.status = "ok"
  /\ filename[Len(filename)] = "g"
  /\ filename[Len(filename) - 2] = "j"
  /\ codec_args.slide_number = 1000
  /\ codec_args.large_w = 108288
  /\ codec_args.large_h = 10
  /\ codec_args.small_w = 1560
  /\ codec_args.small_h = 1

Abs(n) == IF n < 0 THEN 0 - n ELSE n

MappedCorner ==
  /\ large_pixel.status = "ok"
  /\ small_pixel = SmallCorner(large_dimensions)

\* C9: the maximal small corner (floor(w/scale), floor(h/scale)) is mapped
\* to within one pixel of (w, h) in each axis; (1560, 3384) of a
\* 49920 x 108288 slide is mapped to (49920, 108288).
C9_CornerWithinOnePixel ==
  MappedCorner =>
    /\ Abs(large_pixel.value[1] - large_dimensions[1]) <= 1
    /\ Abs(large_pixel.value[2] - large_dimensions[2]) <= 1
    /\ large_dimensions = <<49920, 108288>> =>
         /\ small_pixel = <<1560, 3384>>
         /\ large_pixel.value = <<49920, 108288>>

C9_Witness ==
  /\ MappedCorner
  /\ large_dimensions = <<49920, 63>>
  /\ small_pixel = <<1560, 1>>

Ended(k) == results[k].state \in {"returned", "raised"}

\* the dispatcher and every task it submitted have ended
BatchEnded ==
  /\ pc \in {"done", "raised"}
  /\ \A k \in 1..Len(results) : Ended(k)

Paths == {f.path : f \in files}

ImagePathOf(slide_number) ==
  LET a == PathArgs(slide_number)
  IN  get_training_image_path(a[1], a[2], a[3], a[4], a[5])

ThumbnailPathOf(slide_number) ==
  LET a == PathArgs(slide_number)
  IN  get_training_thumbnail_path(a[1], a[2], a[3], a[4], a[5])

\* the slides whose artifact and thumbnail have both been written
Converted ==
  {n \in 1..MaxSlides : ImagePathOf(n) \in Paths /\ ThumbnailPathOf(n) \in Paths}

\* a batch of 5 slides (5 source files, slide numbers 1..5 processed) on
\* 2 workers, the file of slide m missing
FiveSlideBatchMissing(m) ==
  /\ cpu_count = 2
  /\ Cardinality(srcFiles) = 5
  /\ corrupt = {}
  /\ (1..5) \ srcFiles = {m}

\* C2: in a 5-slide batch with 2 workers and one source file missing, the
\* 4 present slides are converted (artifact and thumbnail written), the
\* failure of the missing slide is reported, and the dispatcher collects
\* the result of the range that did not fail.
C2_FailureIsolated ==
  \A m \in 1..5 :
    (BatchEnded /\ FiveSlideBatchMissing(m)) =>
      /\ Converted = (1..5) \ {m}
      /\ error.type # "none"
      /\ error.slide_number = m
      /\ \A k \in 1..Len(results) :
           results[k].state = "returned" =>
             \E i \in 1..Len(collected) : collected[i] = results[k].range

\* the slides task k has begun to convert
Begun(k) == {results[k].log[i] : i \in 1..Len(results[k].log)}

\* C6: no slide is converted by more than one worker and no output path is
\* written by more than one worker; the dispatched ranges are pairwise
\* disjoint.
C6_NoSharedOutput ==
  /\ \A f, g \in files : f.path = g.path => f.task = g.task
  /\ \A j, k \in 1..Len(results) :
       j # k =>
         /\ Begun(j) \cap Begun(k) = {}
         /\ (results[j].range[1]..results[j].range[2])
              \cap (results[k].range[1]..results[k].range[2]) = {}

C6_Witness ==
  \E j, k \in 1..Len(results) :
    /\ j # k
    /\ results[j].state = "running"
    /\ results[k].state = "running"
    /\ results[j].step = "save_thumbnail"
    /\ results[k].step = "save_thumbnail"
    /\ Len(results[j].log) >= 2
    /\ \E f, g \in files : f.task = j /\ g.task = k

\* C7: a slide handle opened by a conversion is released when that
\* conversion completes: every open handle belongs to a conversion that is
\* still in progress.
C7_HandleReleased == \A h \in openHandles : Referenced(h)

\* C8: open_slide never raises: for a missing file and for a file the
\* library rejects it returns None, otherwise it returns the slide.
C8_OpenSlideNeverRaises ==
  \A k \in 1..Len(results) :
    LET t == results[k]
    IN  /\ t.exc.type \notin {"FileNotFoundError", "OpenSlideError"}
        /\ (t.state = "running" /\ t.step = "read") =>
             IF LibraryOutcome(t.slide_num) = "ok"
             THEN t.slide = [kind |-> "slide", handle |-> t.slide_num]
             ELSE t.slide = None

C8_Witness ==
  \E j, k \in 1..Len(results) :
    /\ results[j].step = "read"
    /\ results[k].step = "read"
    /\ LibraryOutcome(results[j].slide_num) = "FileNotFoundError"
    /\ LibraryOutcome(results[k].slide_num) = "OpenSlideError"
    /\ results[j].slide = None
    /\ results[k].slide = None

\* C10: with no source slides (effective worker count 0) the conversion
\* ends with an error before any range is dispatched, and nothing is
\* written.
C10_RejectedBeforeDispatch ==
  (Total = 0 /\ pc # "start") =>
    /\ pc = "raised"
    /\ error.type = "ZeroDivisionError"
    /\ results = <<>>
    /\ files = {}

C10_Witness ==
  /\ Total = 0
  /\ num_processes = 0
  /\ pc = "raised"
  /\ error.type = "ZeroDivisionError"

\* C12: the dispatcher displays the elapsed time (the report that the
\* batch is complete) only when every range it dispatched has returned its
\* (start, end) pair and the dispatcher has received it: no range is still
\* queued or running, and none has failed.
C12_ReportAfterAllReturned ==
  pc = "done" =>
    /\ Len(results) = Len(tasks)
    /\ \A k \in 1..Len(results) : results[k].state = "returned"
    /\ collected = tasks

C12_Witness ==
  /\ pc = "done"
  /\ Len(results) = 2
  /\ \A k \in 1..Len(results) : results[k].state = "returned"
  /\ collected = <<results[1].range, results[2].range>>

\* the writes task k has made for a slide
WrittenBy(k, slide_number) ==
  {f.path : f \in {g \in files : g.task = k}}
    \cap {ImagePathOf(slide_number), ThumbnailPathOf(slide_number)}

\* C13: within the range (start, end) of a worker the slides are converted
\* one at a time in the order start, start+1, ..., end: the i-th slide the
\* worker reaches is start+i-1, a slide is reached only when both outputs
\* of every earlier slide of the range are written, and the worker has
\* returned only when it has reached end and written both outputs of end.
C13_InOrderThenReturn ==
  \A k \in 1..Len(results) :
    LET t == results[k]
        start == t.range[1]
        end == t.range[2]
    IN  /\ Len(t.log) <= end + 1 - start \/ Len(t.log) = 0
        /\ \A i \in 1..Len(t.log) :
             /\ t.log[i] = start + i - 1
             /\ i < Len(t.log) => Cardinality(WrittenBy(k, t.log[i])) = 2
        /\ (t.state = "returned" /\ start <= end) =>
             /\ Len(t.log) = end + 1 - start
             /\ Cardinality(WrittenBy(k, end)) = 2

C13_Witness ==
  \E k \in 1..Len(results) :
    /\ results[k].state = "returned"
    /\ results[k].range[2] >= results[k].range[1] + 2
    /\ results[k].log = SlideRange(results[k].range[1], results[k].range[2])
    /\ Cardinality(WrittenBy(k, results[k].range[2])) = 2

\* C14: for a source image of positive dimensions and a thumbnail size
\* S >= 1, the target dimensions save_thumbnail computes have the longer
\* edge equal to S and the shorter edge in 1..S.
C14_TargetFitsBox ==
  max_size.status = "ok" =>
    LET S == thumb_args.size
        w == thumb_args.pil_size[1]
        h == thumb_args.pil_size[2]
        long  == IF w >= h THEN max_size.value[1] ELSE max_size.value[2]
        short == IF w >= h THEN max_size.value[2] ELSE max_size.value[1]
    IN  /\ long = S
        /\ short \in 1..S

\* slide_number was converted by a call that returned before call k
ConvertedBefore(k, slide_number) ==
  \E j \in 1..(k - 1) :
    results[j].state = "returned" /\ slide_number \in Begun(j)

\* C11: converting a slide again with the same configuration is
\* idempotent: while a slide that an earlier call has converted is being
\* converted again, every step leaves the output files as they are (the
\* same paths with the same contents), and the paths written are paths
\* written before.
C11_Idempotent ==
  [][\A k \in 1..Len(results) :
       (results[k].state = "running"
          /\ ConvertedBefore(k, results[k].slide_num)) =>
         /\ disk' = disk
         /\ {f.path : f \in files'} = Paths]_vars

C11_Witness ==
  /\ Len(results) = 2
  /\ results[2].state = "returned"
  /\ \E n \in Begun(2) :
       /\ ConvertedBefore(2, n)
       /\ \E f, g \in files :
            f.path = ImagePathOf(n) /\ f.task = 1 /\ g.path = f.path /\ g.task = 2
       /\ [path |-> ImagePathOf(n), content |-> <<ImageContent(n)>>] \in disk
       /\ [path |-> ThumbnailPathOf(n), content |-> <<ThumbnailContent(n)>>] \in disk
  /\ Cardinality(disk) = 2 * Cardinality(Begun(1) \cup Begun(2))

====
